---- MODULE Spec2Model ----
(***************************************************************************)
(* Model of the nodule-ngs2 pipeline: the resumable pipeline engine        *)
(* (script/all_in.py: AllIn, AllInManager), the demultiplexer              *)
(* (script/all_in_tools/demultiplex.py) and the consensus resolver         *)
(* (script/all_in_tools/blast.py: Blastn).                                 *)
(*                                                                         *)
(* Python indices are kept 0-based: stage i of the source is stage i of    *)
(* the model, and step_name[i + 1] is its name in the 1-based TLA+ tuple.  *)
(***************************************************************************)
EXTENDS Integers, Sequences, FiniteSets, TLC

VARIABLES
    pc,          \* where the current process is: "cli", "next", "checkpoint",
                 \*   "call", "running" (inside the stage function), "after_all",
                 \*   "done", "exited" ("idle": no engine followed)
    all_in,      \* AllInManager._all_in: <<>> before construction, else <<the AllIn object>>
    cur,         \* the generator's loop variable count (-1: generator not started)
    disk,        \* the checkpoint files: path -> pickled AllIn object
    saved,       \* history: path -> the live AllIn object when the file was last written
    clock,       \* datetime.now() as seen by construct_path; also counts processes
    margs,       \* AllInManager.args of the current process
    env,         \* what stage 4 finds on the filesystem in this process
    called,      \* stage indices whose function was called in this process, in order
    written,     \* checkpoints written by this process, in order: [name, state]
    lastOutcome, \* outcome of the newest stage function call of this process
    loaded,      \* <<>> on a cold start, else <<the object unpickled by __init__>>
    exitCode,    \* exit status of the process, -1 while it runs
    proc,        \* the work the stage function called last has started (its tool
                 \*   subprocess): "running" until it has ended, else "none"
    \* ---- one call of demultiplex (all_in_tools/demultiplex.py) ----
    dpc,         \* "idle", "open", "pair", "done", "raised" (an Exception), "exited"
    cells,       \* json.load(cells_json): list of [cell, pairs], in the file's key order
    pair_no,     \* number of the file pair zip(R1_fastq, R2_fastq) yields next, from 1
    fastq,       \* <<fastq_r1, fastq_r2>>: the records of the file pair read last
    cell_dfs,    \* the grouping of the file pair grouped last: list of [cell, df], df a list of rows
    plate_at,    \* the plate grid cells assigned by .at[row, col] for that file pair
    empty_cells, \* the printed list of empty cells for that file pair
    out,         \* destination/cells/<cell>/R1.fastq and R2.fastq as written so far
    earlier,     \* history: TRUE when a file pair before that one put a read into some cell
    \* ---- one call of Blastn.blast_search (all_in_tools/blast.py) ----
    bpc,               \* "idle", "call", "str" (in _execute for the one path), "list"
                       \*   (between two files of _blast_search_multi), "file" (in
                       \*   _execute for a file of the list), "returned_single",
                       \*   "returned_multi"
    search_result,     \* result of _execute for the query file searched last
    top_list,          \* top_list of the newest call of _blast_search_single
    individual_result, \* _blast_search_multi: the results of the files searched so far,
                       \*   None included, in query_list order
    final_result,      \* what blast_search returned: None or <<BlastResultInfo>>
    \* ---- one call of assemble_all (all_in_tools/assemble.py) ----
    apc,           \* "idle", "select", "cell" (in the loop over the cell directories),
                   \*   "returned", "raised"
    assemble_engine, \* the argument assemble_engine
    asm_settings,  \* the keys of the argument settings of assemble_all
    cell_dirs,     \* the cell directories os.scandir lists, in order: TRUE when the
                   \*   directory holds every file named in R1_name and R2_name
    runs,          \* history: what happened to the megahit run of each cell so far
    all_contigs    \* all_contigs.fasta of each cell opened so far, as a list of lines

evars == <<pc, all_in, cur, disk, saved, clock, margs, env, called, written,
           lastOutcome, loaded, exitCode, proc>>

dvars == <<dpc, cells, pair_no, fastq, cell_dfs, plate_at, empty_cells, out, earlier>>

bvars == <<bpc, search_result, top_list, individual_result, final_result>>

avars == <<apc, assemble_engine, asm_settings, cell_dirs, runs, all_contigs>>

vars == <<evars, dvars, bvars, avars>>

(***************************************************************************)
(* Bounds                                                                  *)
(***************************************************************************)
\* number of processes (one cold start followed by restarts) in a behaviour
MaxRuns == 2

\* most cells in a barcode table
MaxWells == 2

\* most accepted (forward, reverse) pairs of one cell
MaxBarcodes == 2

\* most records in one fastq file
MaxReads == 2

\* most (R1, R2) file pairs given to one call of demultiplex
MaxFilePairs == 2

\* sequences in one query file, and query files (ContigSets) in one call
MaxQueries == 2

MaxContigSets == 2

(***************************************************************************)
(* AllIn.__init__: the stage list                                          *)
(***************************************************************************)
step_name == <<"cutadapt_tag", "cutadapt_primer", "fastp", "demultiplex",
               "assemble_all", "assemble_separete", "blast_all">>

\* len(self.step_func)
NumSteps == Len(step_name)

\* index of _step4 (demultiplex) in step_func
DemultiplexStep == 3

BeforeName(i) == "before_" \o step_name[i + 1]

CheckpointNames == {BeforeName(i) : i \in 0..(NumSteps - 1)} \cup {"after_all"}

(***************************************************************************)
(* read_settings: user yaml merged over default.yaml, key by key           *)
(***************************************************************************)
default_settings == [destination |-> "data", logging_path |-> "log"]

\* the yaml files a run may name; a missing file reads as the empty dict
YamlFiles == {"None", "user.yaml", "override.yaml", "missing.yaml"}

user_settings(yaml_path) ==
    CASE yaml_path = "user.yaml"     -> [destination |-> "mydata"]
      [] yaml_path = "override.yaml" -> [destination |-> "otherdata", logging_path |-> "log2"]
      [] OTHER                       -> <<>>

read_settings(yaml_path) ==
    LET user == user_settings(yaml_path)
    IN  [key \in DOMAIN default_settings |->
            IF key \in DOMAIN user THEN user[key] ELSE default_settings[key]]

(***************************************************************************)
(* set_logger, construct_path                                              *)
(***************************************************************************)
set_logger(settings, args) == [logging_path |-> settings.logging_path]

\* dir_dict and fastq_dict; now is datetime.now()
construct_path(settings, args, now) ==
    LET dest == <<settings.destination, now>>
    IN  << [destination |-> dest],
           [raw |-> [R1 |-> args.R1, R2 |-> args.R2],
            tag_removed |-> [dir |-> dest, R1 |-> args.R1, R2 |-> args.R2]] >>

(***************************************************************************)
(* Command lines                                                           *)
(***************************************************************************)
R1Lists == {<<"a_R1">>, <<"a_R1", "b_R1">>}
R2Lists == {<<"a_R2">>}

\* a checkpoint path is <<destination directory, checkpoint name>>
NoPath == <<>>

ColdArgs ==
    [R1 : R1Lists, R2 : R2Lists, settings : {"None", "user.yaml"},
     resume : {NoPath}, override_yaml : {"None"}]

ResumeArgs(paths) ==
    [R1 : {<<"a_R1">>}, R2 : {<<"a_R2">>}, settings : {"None"},
     resume : paths, override_yaml : {"None", "override.yaml", "missing.yaml"}]

\* what demultiplex finds: the barcode descriptor and the line counts of a pair
Envs == {"ok", "no_cells_json", "line_count_mismatch"}

(***************************************************************************)
(* AllInManager._create_checkpoint                                         *)
(***************************************************************************)
CheckpointPath(obj, name) == <<obj.dir_path.destination, name>>

\* a Logger pickles as its name alone: the handlers set_logger gave it are not in
\* the file, and the process that unpickles it gets the logger of that name as
\* that process has configured it so far, i.e. not at all
unconfigured_logger == [logging_path |-> "unconfigured"]

\* pickle.dump / pickle.load of the AllIn object: plain data round-trips
pickle_dump(obj) == [obj EXCEPT !.logger = unconfigured_logger]

pickle_load(bytes) == bytes

\* file content after open(chk_path, 'wb') and pickle.dump(self._all_in, f), under
\* destination/name.checkpoint; content is what is stored
WriteFile(d, obj, name, content) ==
    LET path == CheckpointPath(obj, name)
    IN  [p \in (DOMAIN d) \cup {path} |-> IF p = path THEN content ELSE d[p]]

create_checkpoint(d, obj, name) == WriteFile(d, obj, name, pickle_dump(obj))

(***************************************************************************)
(* AllInManager.__init__                                                   *)
(***************************************************************************)
\* AllIn.__init__ after the read check
NewAllIn(args, now) ==
    LET settings == read_settings(args.settings)
        paths    == construct_path(settings, args, now)
    IN  [args         |-> args,
         settings     |-> settings,
         dir_path     |-> paths[1],
         fastq_path   |-> paths[2],
         logger       |-> set_logger(settings, args),
         step_counter |-> 0]

\* mutant of ResumedAllIn: the override also rebuilds the path layout
ResumedAllInRebuilt(pickled, args) ==
    LET settings == IF args.override_yaml # "None"
                    THEN read_settings(args.override_yaml)
                    ELSE pickled.settings
        paths    == construct_path(settings, pickled.args, pickled.dir_path.destination[2])
    IN  [pickled EXCEPT !.settings   = settings,
                        !.dir_path   = paths[1],
                        !.fastq_path = paths[2],
                        !.logger     = set_logger(settings, pickled.args)]

\* the resume branch: unpickle, optionally reload settings, re-setup the logger
ResumedAllIn(pickled, args) ==
    LET settings == IF args.override_yaml # "None"
                    THEN read_settings(args.override_yaml)
                    ELSE pickled.settings
    IN  [pickled EXCEPT !.settings = settings,
                        !.logger   = set_logger(settings, pickled.args)]

\* None, the absent BlastResultInfo; a result r is held as <<r>>
None == <<>>

\* no blast search is followed
BlastIdle ==
    /\ bpc = "idle"
    /\ search_result = <<>>
    /\ top_list = <<>>
    /\ individual_result = <<>>
    /\ final_result = None

\* no assembly is followed
AssembleIdle ==
    /\ apc = "idle"
    /\ assemble_engine = "megahit"
    /\ asm_settings = {}
    /\ cell_dirs = <<>>
    /\ runs = <<>>
    /\ all_contigs = <<>>

\* no call of demultiplex is followed
DemuxIdle ==
    /\ dpc = "idle"
    /\ cells = <<>>
    /\ pair_no = 0
    /\ fastq = <<<<>>, <<>>>>
    /\ cell_dfs = <<>>
    /\ plate_at = <<>>
    /\ empty_cells = <<>>
    /\ out = <<>>
    /\ earlier = FALSE

StartHistory ==
    /\ called = <<>>
    /\ written = <<>>
    /\ lastOutcome = "none"

Init ==
    /\ pc = "cli"
    /\ all_in = <<>>
    /\ cur = -1
    /\ disk = <<>>
    /\ saved = <<>>
    /\ clock = 1
    /\ margs \in ColdArgs
    /\ env \in Envs
    /\ StartHistory
    /\ loaded = <<>>
    /\ exitCode = -1
    /\ proc = "none"
    /\ DemuxIdle
    /\ BlastIdle
    /\ AssembleIdle

\* new start: AllIn(args); the read check exits with status 1
ColdStart ==
    /\ pc = "cli"
    /\ margs.resume = NoPath
    /\ IF Len(margs.R1) = 0 \/ Len(margs.R2) = 0 \/ Len(margs.R1) # Len(margs.R2)
       THEN /\ pc' = "exited"
            /\ exitCode' = 1
            /\ UNCHANGED all_in
       ELSE /\ pc' = "next"
            /\ all_in' = <<NewAllIn(margs, clock)>>
            /\ UNCHANGED exitCode
    /\ UNCHANGED <<cur, disk, saved, clock, margs, env, called, written,
                   lastOutcome, loaded, proc, dvars, bvars, avars>>

\* resume point: pickle.load(args.resume)
Resume ==
    /\ pc = "cli"
    /\ margs.resume # NoPath
    /\ margs.resume \in DOMAIN disk
    /\ loaded' = <<pickle_load(disk[margs.resume])>>
    /\ all_in' = <<ResumedAllIn(pickle_load(disk[margs.resume]), margs)>>
    /\ pc' = "next"
    /\ UNCHANGED <<cur, disk, saved, clock, margs, env, called, written,
                   lastOutcome, exitCode, proc, dvars, bvars, avars>>

(***************************************************************************)
(* AllIn.workflow_generator, driven by the for loop of AllInManager.run    *)
(***************************************************************************)
\* mutant of CounterAfterYield: the assignment after the yield is lost
CounterAfterYieldStale(obj, c) == obj.step_counter

\* the value of step_counter the generator leaves when it is resumed (or first
\* entered) with loop variable count c
CounterAfterYield(obj, c) == IF c = -1 THEN obj.step_counter ELSE c + 1

\* mutant of NextCount: the generator ignores the restored cursor
NextCountFromZero(obj, c) == IF c = -1 THEN 0 ELSE c + 1

\* index the generator yields next: start = step_counter on entry, count + 1 after
NextCount(obj, c) == IF c = -1 THEN obj.step_counter ELSE c + 1

\* next(generator): finish the previous iteration (step_counter = count + 1), then
\* yield the next stage or stop
GenNext ==
    /\ pc = "next"
    /\ LET obj == all_in[1]
           n   == NextCount(obj, cur)
       IN  /\ all_in' = <<[obj EXCEPT !.step_counter = CounterAfterYield(obj, cur)]>>
           /\ IF n < NumSteps
              THEN /\ cur' = n
                   /\ pc' = "checkpoint"
              ELSE /\ cur' = cur
                   /\ pc' = "after_all"
    /\ UNCHANGED <<disk, saved, clock, margs, env, called, written,
                   lastOutcome, loaded, exitCode, proc, dvars, bvars, avars>>

\* self._create_checkpoint("before_" + step_info.name)
Checkpoint ==
    /\ pc = "checkpoint"
    /\ disk' = create_checkpoint(disk, all_in[1], BeforeName(cur))
    /\ saved' = WriteFile(saved, all_in[1], BeforeName(cur), all_in[1])
    /\ written' = Append(written, [name |-> BeforeName(cur),
                                     state |-> disk'[CheckpointPath(all_in[1], BeforeName(cur))]])
    /\ pc' = "call"
    /\ UNCHANGED <<all_in, cur, clock, margs, env, called,
                   lastOutcome, loaded, exitCode, proc, dvars, bvars, avars>>

\* what step_info.function() can do: return, raise an Exception, or raise SystemExit
\* (demultiplex: sys.exit(1) on a missing cells_json, exit(1) on unequal line counts)
Outcomes(i, e) ==
    IF i = DemultiplexStep /\ e # "ok" THEN {"exit"} ELSE {"ok", "raise"}

\* mutant of Continues: a raised Exception leaves run() like SystemExit
ContinuesOnlyOnSuccess(outcome) == outcome = "ok"

\* mutant of Continues: SystemExit is handled like an Exception
ContinuesAfterExit(outcome) == outcome \in {"ok", "raise", "exit"}

\* the handler of run(): except Exception logs and goes on; SystemExit is not an
\* Exception and leaves run()
Continues(outcome) == outcome \in {"ok", "raise"}

\* try: step_info.function(): the stage function is entered and starts its work
\* (subprocess.Popen of cutadapt, fastp, megahit, blastn; demultiplex works itself)
CallStep ==
    /\ pc = "call"
    /\ called' = Append(called, cur)
    /\ lastOutcome' = "pending"
    /\ proc' = "running"
    /\ pc' = "running"
    /\ UNCHANGED <<all_in, cur, disk, saved, clock, margs, env, written, loaded, exitCode,
                   dvars, bvars, avars>>

\* the work started by the stage function ends
ProcExits ==
    /\ proc = "running"
    /\ proc' = "none"
    /\ UNCHANGED <<pc, all_in, cur, disk, saved, clock, margs, env, called, written,
                   lastOutcome, loaded, exitCode, dvars, bvars, avars>>

\* mutant of Waited: the stage function returns without waiting for its work
NotWaited(p) == TRUE

\* proc.wait() / proc.communicate(): the stage function goes on when its
\* subprocess has ended
Waited(p) == p # "running"

\* step_info.function() returns or raises: except Exception ... else ...
StageReturns ==
    /\ pc = "running"
    /\ Waited(proc)
    /\ \E outcome \in Outcomes(cur, env) :
          /\ lastOutcome' = outcome
          /\ IF Continues(outcome)
             THEN /\ pc' = "next"
                  /\ UNCHANGED exitCode
             ELSE /\ pc' = "exited"
                  /\ exitCode' = 1
    /\ UNCHANGED <<all_in, cur, disk, saved, clock, margs, env, called, written, loaded,
                   proc, dvars, bvars, avars>>

\* mutant of AfterAll: run() returns without the final checkpoint
AfterAllNotWritten ==
    /\ pc = "after_all"
    /\ pc' = "done"
    /\ exitCode' = 0
    /\ UNCHANGED <<all_in, cur, disk, saved, clock, margs, env, called, written,
                   lastOutcome, loaded, proc, dvars, bvars, avars>>

\* the else clause of the for loop: self._create_checkpoint("after_all"), then
\* run() and the script return
AfterAll ==
    /\ pc = "after_all"
    /\ disk' = create_checkpoint(disk, all_in[1], "after_all")
    /\ saved' = WriteFile(saved, all_in[1], "after_all", all_in[1])
    /\ written' = Append(written, [name |-> "after_all",
                                     state |-> disk'[CheckpointPath(all_in[1], "after_all")]])
    /\ pc' = "done"
    /\ exitCode' = 0
    /\ UNCHANGED <<all_in, cur, clock, margs, env, called,
                   lastOutcome, loaded, proc, dvars, bvars, avars>>

\* the user starts the script again: cold, or from a checkpoint path
Restart ==
    /\ pc \in {"done", "exited"}
    /\ clock < MaxRuns
    /\ clock' = clock + 1
    /\ pc' = "cli"
    /\ all_in' = <<>>
    /\ cur' = -1
    /\ margs' \in ColdArgs \cup ResumeArgs(DOMAIN disk)
    /\ env' \in Envs
    /\ called' = <<>>
    /\ written' = <<>>
    /\ lastOutcome' = "none"
    /\ loaded' = <<>>
    /\ exitCode' = -1
    /\ proc' = "none"
    /\ UNCHANGED <<disk, saved, dvars, bvars, avars>>

Next ==
    \/ ColdStart
    \/ Resume
    \/ GenNext
    \/ Checkpoint
    \/ CallStep
    \/ ProcExits
    \/ StageReturns
    \/ AfterAll
    \/ Restart

Spec == Init /\ [][Next]_vars

\* a started process runs to its end: the script is sequential and every stage
\* function is taken to return or raise
FairSpec ==
    Spec /\ WF_vars(ColdStart \/ Resume \/ GenNext \/ Checkpoint \/ CallStep \/ ProcExits
                       \/ StageReturns \/ AfterAll)

(***************************************************************************)
(* demultiplex (all_in_tools/demultiplex.py)                               *)
(*                                                                         *)
(* A header line is modelled by its fields between single spaces:          *)
(* <<"@r", "BC2", "BC1">> is the line "@r BC2 BC1". A fastq file is the    *)
(* list of its records (four lines each); the sequence and quality lines   *)
(* of a record are tagged with the file and the position they come from.   *)
(* A cell code such as "1A01" is <<"1", "A", "01">>: cell[0], cell[1] and  *)
(* cell[2:4] of the source.                                                *)
(***************************************************************************)
WellNames == {<<"1", "A", "01">>, <<"2", "H", "12">>}

BarcodePairs == {<<"BC1", "BC2">>, <<"BC2", "BC2">>}

\* the (forward header, reverse header) of a read pair: accepted as (BC1, BC2),
\* accepted as (BC2, BC2), and (BC2, BC1), which no cell accepts
ReadHeaders == {<< <<"@r", "BC2", "BC1">>, <<"@r", "BC2">> >>,
                << <<"@r", "BC2">>,        <<"@r", "BC2">> >>,
                << <<"@r", "BC2">>,        <<"@r", "BC1">> >>}

\* the lists of accepted pairs a cell of cells.json may hold
PairLists == UNION {[1..n -> BarcodePairs] : n \in 0..MaxBarcodes}

\* the contents of cells.json: a JSON object, so no cell occurs twice
Tables ==
    {t \in UNION {[1..n -> [cell : WellNames, pairs : PairLists]] : n \in 0..MaxWells} :
        \A i, j \in 1..Len(t) : i # j => t[i].cell # t[j].cell}

\* record i of the fastq file of read R1 or R2 of file pair n
Record(read, n, i, header) ==
    [fullname |-> header, sequence |-> <<read, n, i>>, quality |-> <<"q", read, n, i>>]

\* the file pairs n with as many records in R1 as in R2
FilePairs(n) ==
    UNION {{ << [i \in 1..len |-> Record("R1", n, i, h[i][1])],
                [i \in 1..len |-> Record("R2", n, i, h[i][2])] >> :
              h \in [1..len -> ReadHeaders]} : len \in 0..MaxReads}

\* the header every record of a file pair with unequal line counts is given: the
\* assert ends the call before any header is looked at, so one header stands for all
UnreadHeader == <<"@r", "BC2">>

\* the file pairs n with unequal numbers of records
UnequalFilePairs(n) ==
    { << [i \in 1..len1 |-> Record("R1", n, i, UnreadHeader)],
         [i \in 1..len2 |-> Record("R2", n, i, UnreadHeader)] >> :
      <<len1, len2>> \in {x \in (0..MaxReads) \X (0..MaxReads) : x[1] # x[2]} }

\* number of lines of a file: len(fastq_r1)
LineCount(file) == 4 * Len(file)

\* fastq_r1[i].split(" ")[-1]
Name(fullname) == fullname[Len(fullname)]

\* pd.concat([pd.DataFrame(dict_r1), pd.DataFrame(dict_r2)], axis=1); index is the
\* DataFrame's row label
sequence_df(fastq_r1, fastq_r2) ==
    [i \in 1..Len(fastq_r1) |->
        [index       |-> i - 1,
         R1_fullname |-> fastq_r1[i].fullname,
         R1_name     |-> Name(fastq_r1[i].fullname),
         R1_sequence |-> fastq_r1[i].sequence,
         R1_quality  |-> fastq_r1[i].quality,
         R2_fullname |-> fastq_r2[i].fullname,
         R2_name     |-> Name(fastq_r2[i].fullname),
         R2_sequence |-> fastq_r2[i].sequence,
         R2_quality  |-> fastq_r2[i].quality]]

\* the query string of a cell: "(R1_name == 'a' and R2_name == 'b') or(...)"
QueryAccepts(pairs, row) ==
    \E j \in 1..Len(pairs) : row.R1_name = pairs[j][1] /\ row.R2_name = pairs[j][2]

\* DataFrame.query("") raises ValueError: the join of an empty list of pairs
QueryRaises(pairs) == pairs = <<>>

\* sequence_df.query(...): the rows the expression accepts, in the frame's order
query(df, pairs) ==
    LET Test(row) == QueryAccepts(pairs, row)
    IN  SelectSeq(df, Test)

\* the dict comprehension over cells.keys()
CellDfs(df, table) ==
    [j \in 1..Len(table) |-> [cell |-> table[j].cell, df |-> query(df, table[j].pairs)]]

\* int(cell[0])
int(digit) ==
    CASE digit = "1" -> 1 [] digit = "2" -> 2 [] digit = "3" -> 3
      [] digit = "4" -> 4 [] digit = "5" -> 5 [] digit = "6" -> 6

\* range(0, 6): the plate grids built for the count
NumPlates == 6

PlateRows == {"A", "B", "C", "D", "E", "F", "G", "H"}

PlateCols == {"01", "02", "03", "04", "05", "06", "07", "08", "09", "10", "11", "12"}

PlateAssignmentsByPlateNumber(dfs) ==
    [pos \in {<<int(dfs[j].cell[1]), dfs[j].cell[2], dfs[j].cell[3]>> : j \in 1..Len(dfs)} |->
        LET j == CHOOSE j \in 1..Len(dfs) :
                    pos = <<int(dfs[j].cell[1]), dfs[j].cell[2], dfs[j].cell[3]>>
        IN  Len(dfs[j].df)]

\* plate[plate_no].at[row, col] = len(df), for every cell of cell_dfs
PlateAssignments(dfs) ==
    [pos \in {<<int(dfs[j].cell[1]) - 1, dfs[j].cell[2], dfs[j].cell[3]>> : j \in 1..Len(dfs)} |->
        LET j == CHOOSE j \in 1..Len(dfs) :
                    pos = <<int(dfs[j].cell[1]) - 1, dfs[j].cell[2], dfs[j].cell[3]>>
        IN  Len(dfs[j].df)]

\* the printed grid: np.zeros((8,12)) where no cell was assigned
Plate(assigned, plate_no, row, col) ==
    IF <<plate_no, row, col>> \in DOMAIN assigned THEN assigned[<<plate_no, row, col>>] ELSE 0

\* empty_cells.append(cell) for the cells with len(df) == 0
EmptyCells(dfs) ==
    LET IsEmpty(e) == Len(e.df) = 0
        empties == SelectSeq(dfs, IsEmpty)
    IN  [j \in 1..Len(empties) |-> empties[j].cell]

\* the four lines written for a row into R1.fastq and R2.fastq
R1Record(row) == <<row.R1_fullname, row.R1_sequence, "+", row.R1_quality>>

\* mutant of R2Record: the reverse file is written from the forward columns
R2RecordFromR1(row) == <<row.R1_fullname, row.R1_sequence, "+", row.R1_quality>>

R2Record(row) == <<row.R2_fullname, row.R2_sequence, "+", row.R2_quality>>

\* mutant of SavedFiles: the files are opened for appending
SavedFilesAppended(files, dfs) ==
    [c \in (DOMAIN files) \cup {dfs[j].cell : j \in 1..Len(dfs)} |->
        IF \E j \in 1..Len(dfs) : dfs[j].cell = c
        THEN LET j == CHOOSE j \in 1..Len(dfs) : dfs[j].cell = c
                 old == IF c \in DOMAIN files THEN files[c] ELSE [R1 |-> <<>>, R2 |-> <<>>]
             IN  [R1 |-> old.R1 \o [i \in 1..Len(dfs[j].df) |-> R1Record(dfs[j].df[i])],
                  R2 |-> old.R2 \o [i \in 1..Len(dfs[j].df) |-> R2Record(dfs[j].df[i])]]
        ELSE files[c]]

\* open(path + '/R1.fastq', 'wt') and '/R2.fastq' for every cell: the files are
\* truncated and hold the rows of this file pair
SavedFiles(files, dfs) ==
    [c \in (DOMAIN files) \cup {dfs[j].cell : j \in 1..Len(dfs)} |->
        IF \E j \in 1..Len(dfs) : dfs[j].cell = c
        THEN LET j == CHOOSE j \in 1..Len(dfs) : dfs[j].cell = c
             IN  [R1 |-> [i \in 1..Len(dfs[j].df) |-> R1Record(dfs[j].df[i])],
                  R2 |-> [i \in 1..Len(dfs[j].df) |-> R2Record(dfs[j].df[i])]]
        ELSE files[c]]

\* no engine is followed while demultiplex is checked on its own
EngineIdle ==
    /\ pc = "idle"
    /\ all_in = <<>>
    /\ cur = -1
    /\ disk = <<>>
    /\ saved = <<>>
    /\ clock = 1
    /\ margs = [R1 |-> <<>>, R2 |-> <<>>, settings |-> "None",
                resume |-> NoPath, override_yaml |-> "None"]
    /\ env = "ok"
    /\ StartHistory
    /\ loaded = <<>>
    /\ exitCode = -1
    /\ proc = "none"

\* demultiplex is called with at most MaxFilePairs file pairs
DemuxInit ==
    /\ EngineIdle
    /\ dpc = "open"
    /\ cells = <<>>
    /\ pair_no = 1
    /\ fastq = <<<<>>, <<>>>>
    /\ cell_dfs = <<>>
    /\ plate_at = <<>>
    /\ empty_cells = <<>>
    /\ out = <<>>
    /\ earlier = FALSE
    /\ BlastIdle
    /\ AssembleIdle

\* the engine's variables other than the exit status of the process
evarsButExit == <<pc, all_in, cur, disk, saved, clock, margs, env, called, written,
                  lastOutcome, loaded, proc>>

\* Load cell names: json.load, or sys.exit(1) when the file cannot be opened
LoadCells ==
    /\ dpc = "open"
    /\ \/ /\ cells' \in Tables
          /\ dpc' = "pair"
          /\ UNCHANGED exitCode
       \/ /\ dpc' = "exited"
          /\ exitCode' = 1
          /\ UNCHANGED cells
    /\ UNCHANGED <<pair_no, fastq, cell_dfs, plate_at, empty_cells, out, earlier>>
    /\ UNCHANGED <<evarsButExit, bvars, avars>>

\* assert len(fastq_r1) == len(fastq_r2) fails
AssertFailsOnR1Longer(files) == LineCount(files[1]) > LineCount(files[2])

AssertFails(files) == LineCount(files[1]) # LineCount(files[2])

\* one pass of the loop over zip(R1_fastq, R2_fastq): read the two files, compare
\* their line counts, group the rows by cell, count, print and save
ProcessPair ==
    /\ dpc = "pair"
    /\ pair_no <= MaxFilePairs
    /\ \E files \in FilePairs(pair_no) \cup UnequalFilePairs(pair_no) :
          /\ fastq' = files
          /\ IF AssertFails(files)
             THEN /\ dpc' = "exited"
                  /\ exitCode' = 1
                  /\ UNCHANGED <<pair_no, cell_dfs, plate_at, empty_cells, out, earlier>>
             ELSE IF \E j \in 1..Len(cells) : QueryRaises(cells[j].pairs)
             THEN /\ dpc' = "raised"
                  /\ UNCHANGED <<pair_no, cell_dfs, plate_at, empty_cells, out, earlier>>
                  /\ UNCHANGED exitCode
             ELSE LET dfs == CellDfs(sequence_df(files[1], files[2]), cells)
                  IN  /\ UNCHANGED exitCode
                      /\ cell_dfs' = dfs
                      /\ plate_at' = PlateAssignments(dfs)
                      /\ empty_cells' = EmptyCells(dfs)
                      /\ out' = SavedFiles(out, dfs)
                      /\ earlier' = (earlier \/ \E j \in 1..Len(cell_dfs) :
                                                   cell_dfs[j].df # <<>>)
                      /\ pair_no' = pair_no + 1
                      /\ dpc' = "pair"
    /\ UNCHANGED cells
    /\ UNCHANGED <<evarsButExit, bvars, avars>>

\* zip(R1_fastq, R2_fastq) is exhausted: demultiplex returns
Return ==
    /\ dpc = "pair"
    /\ dpc' = "done"
    /\ UNCHANGED <<cells, pair_no, fastq, cell_dfs, plate_at, empty_cells, out, earlier>>
    /\ UNCHANGED <<evars, bvars, avars>>

DemuxNext ==
    \/ LoadCells
    \/ ProcessPair
    \/ Return

DemuxSpec == DemuxInit /\ [][DemuxNext]_vars

(***************************************************************************)
(* Blastn (all_in_tools/blast.py): best hits, single and multi search      *)
(*                                                                         *)
(* A DataFrame is the list of its rows. A row keeps the columns the        *)
(* resolver reads: saccver, evalue, bitscore, and the three columns        *)
(* _execute adds (query_file, query_name, query_seq). E-values are ranked   *)
(* by small integers: 1 is a smaller e-value than 2.                       *)
(***************************************************************************)
Hit(saccver, evalue, bitscore) ==
    [saccver |-> saccver, evalue |-> evalue, bitscore |-> bitscore]

\* the hit tables blastn writes for one query sequence: no hit; two hits tied on
\* e-value and bit-score, in either order; a tie on e-value alone; the smallest
\* e-value and the largest bit-score on different hits; a hit with a far larger
\* e-value beside the best one; one hit with an e-value between those two
HitTables ==
    { <<>>,
      <<Hit("Y", 1, 60), Hit("X", 1, 60)>>,
      <<Hit("X", 1, 60), Hit("Y", 1, 60)>>,
      <<Hit("X", 1, 50), Hit("Y", 1, 60)>>,
      <<Hit("X", 1, 50), Hit("Y", 2, 60)>>,
      <<Hit("X", 3, 50), Hit("Y", 1, 60)>>,
      <<Hit("X", 2, 50)>> }

\* the c-th query file of a call, its i-th header line and the sequence under it
QueryFile(c) == <<c, "_ind_contigs.fasta">>

QueryName(i) == <<">contig", i>>

QuerySeq(c, i) == <<"seq", c, i>>

BlastResultInfo(result, query_file, query_name, query_seq, intersection) ==
    [result |-> result, query_file |-> query_file, query_name |-> query_name,
     query_seq |-> query_seq, intersection |-> intersection]

\* _execute for one query of the file: pd.read_csv plus the three added columns
ExecuteQuery(c, i, hits) ==
    BlastResultInfo(
        [k \in 1..Len(hits) |->
            [saccver |-> hits[k].saccver, evalue |-> hits[k].evalue,
             bitscore |-> hits[k].bitscore, query_file |-> QueryFile(c),
             query_name |-> QueryName(i), query_seq |-> QuerySeq(c, i)]],
        QueryFile(c), QueryName(i), QuerySeq(c, i), FALSE)

\* Series.min() and Series.max() of an empty column are NaN
NaN == -1

evalue_min(df) ==
    IF df = <<>> THEN NaN
    ELSE CHOOSE m \in {df[k].evalue : k \in 1..Len(df)} :
             \A k \in 1..Len(df) : m <= df[k].evalue

bitscore_max(df) ==
    IF df = <<>> THEN NaN
    ELSE CHOOSE m \in {df[k].bitscore : k \in 1..Len(df)} :
             \A k \in 1..Len(df) : m >= df[k].bitscore

\* a < b on floats: False when either side is NaN
Less(a, b) == a # NaN /\ b # NaN /\ a < b

RECURSIVE sort_values(_)
\* df.sort_values(by=["evalue"]): ascending; numpy's quicksort sorts a column of
\* fewer than 17 values by insertion, which leaves equal e-values in frame order
sort_values(df) ==
    IF df = <<>> THEN <<>>
    ELSE LET first == CHOOSE k \in 1..Len(df) :
                          /\ df[k].evalue = evalue_min(df)
                          /\ \A m \in 1..(k - 1) : df[m].evalue # evalue_min(df)
         IN  <<df[first]>> \o
             sort_values([k \in 1..(Len(df) - 1) |-> IF k < first THEN df[k] ELSE df[k + 1]])

\* query(f"evalue == {highest_evalue} and bitscore == {highest_bitscore}") raises
\* UndefinedVariableError when the two values are formatted as "nan"
ChooseRaises(blastn_result) == blastn_result.result = <<>>

choose_lowest_evalue(blastn_result) ==
    LET sorted == sort_values(blastn_result.result)
        highest_evalue == evalue_min(sorted)
        Best(row) == row.evalue = highest_evalue
    IN  BlastResultInfo(SelectSeq(sorted, Best), blastn_result.query_file,
                        blastn_result.query_name, blastn_result.query_seq, FALSE)

\* _choose_highest_score, for a frame with at least one row
choose_highest_score(blastn_result) ==
    LET sorted == sort_values(blastn_result.result)
        highest_evalue == evalue_min(sorted)
        highest_bitscore == bitscore_max(sorted)
        Best(row) == row.evalue = highest_evalue /\ row.bitscore = highest_bitscore
    IN  BlastResultInfo(SelectSeq(sorted, Best), blastn_result.query_file,
                        blastn_result.query_name, blastn_result.query_seq, FALSE)

\* the loop of _blast_search_single: frames with no row are skipped
TopList(results) ==
    LET NotEmpty(r) == r.result # <<>>
        kept == SelectSeq(results, NotEmpty)
    IN  [k \in 1..Len(kept) |-> choose_highest_score(kept[k])]

RECURSIVE MinFrom(_, _)
\* min(top_list, key=...): the first element stays the answer until a later one
\* has a key that compares smaller
MinFrom(best, rest) ==
    IF rest = <<>> THEN best
    ELSE IF Less(evalue_min(Head(rest).result), evalue_min(best.result))
         THEN MinFrom(Head(rest), Tail(rest))
         ELSE MinFrom(best, Tail(rest))

\* _blast_search_single, given what _execute returned
blast_search_single(results) ==
    IF Len(results) > 0 /\ TopList(results) # <<>>
    THEN <<MinFrom(Head(TopList(results)), Tail(TopList(results)))>>
    ELSE None

\* set(d["saccver"])
Names(d) == {d[k].saccver : k \in 1..Len(d)}

RECURSIVE reduce_union(_, _)
reduce_union(names, acc) ==
    IF names = <<>> THEN acc ELSE reduce_union(Tail(names), acc \cup Head(names))

reduce_seed(names, acc) == acc

RECURSIVE reduce_and(_, _)
\* reduce(f_and, names, union_names)
reduce_and(names, acc) ==
    IF names = <<>> THEN acc ELSE reduce_and(Tail(names), acc \cap Head(names))

RECURSIVE concat(_)
\* pd.concat of the frames in list order
concat(dfs) == IF dfs = <<>> THEN <<>> ELSE Head(dfs) \o concat(Tail(dfs))

drop_duplicates_keep_last(df) ==
    LET Kept(k) == \A m \in (k + 1)..Len(df) : df[m].saccver # df[k].saccver
        idx == {k \in 1..Len(df) : Kept(k)}
        Nth(n) == CHOOSE k \in idx : Cardinality({m \in idx : m < k}) = n - 1
    IN  [n \in 1..Cardinality(idx) |-> df[Nth(n)]]

\* drop_duplicates(subset="saccver", keep="first")
drop_duplicates(df) ==
    LET Kept(k) == \A m \in 1..(k - 1) : df[m].saccver # df[k].saccver
        idx == {k \in 1..Len(df) : Kept(k)}
        Nth(n) == CHOOSE k \in idx : Cardinality({m \in idx : m < k}) = n - 1
    IN  [n \in 1..Cardinality(idx) |-> df[Nth(n)]]

\* ":".join(list(final_df[column].unique())): the distinct values in row order,
\* kept as the list that is joined
unique(values) ==
    LET Kept(k) == \A m \in 1..(k - 1) : values[m] # values[k]
        idx == {k \in 1..Len(values) : Kept(k)}
        Nth(n) == CHOOSE k \in idx : Cardinality({m \in idx : m < k}) = n - 1
    IN  [n \in 1..Cardinality(idx) |-> values[Nth(n)]]

\* the accessions of _get_result_intersection
Intersection(results) ==
    LET names == [k \in 1..Len(results) |-> Names(results[k].result)]
        union_names == reduce_union(names, {})
    IN  reduce_and(names, union_names)

\* _get_result_intersection
get_result_intersection(results) ==
    LET dfs == [k \in 1..Len(results) |-> results[k].result]
        intersection == Intersection(results)
        IsIn(row) == row.saccver \in intersection
        final_df == drop_duplicates(sort_values(
                        concat([k \in 1..Len(dfs) |-> SelectSeq(dfs[k], IsIn)])))
    IN  IF Cardinality(intersection) > 0
        THEN <<BlastResultInfo(final_df,
                   unique([k \in 1..Len(final_df) |-> final_df[k].query_file]),
                   unique([k \in 1..Len(final_df) |-> final_df[k].query_name]),
                   unique([k \in 1..Len(final_df) |-> final_df[k].query_seq]),
                   TRUE)>>
        ELSE None

\* individual_result with the None entries filtered out
NotNone(results) ==
    LET Some(r) == r # None
        kept == SelectSeq(results, Some)
    IN  [k \in 1..Len(kept) |-> kept[k][1]]

blast_search_multi_always_intersects(results) ==
    IF Len(NotNone(results)) = 0 THEN None
    ELSE get_result_intersection(NotNone(results))

\* _blast_search_multi, given the results of _blast_search_single per file
blast_search_multi(results) ==
    IF Len(NotNone(results)) = 0 THEN None
    ELSE IF Len(NotNone(results)) = 1 THEN <<NotNone(results)[1]>>
    ELSE get_result_intersection(NotNone(results))

\* blast_search is called once
BlastInit ==
    /\ EngineIdle
    /\ DemuxIdle
    /\ bpc = "call"
    /\ search_result = <<>>
    /\ top_list = <<>>
    /\ individual_result = <<>>
    /\ final_result = None
    /\ AssembleIdle

\* blast_search: isinstance(query, list) or isinstance(query, PathStr)
BlastSearch ==
    /\ bpc = "call"
    /\ bpc' \in {"str", "list"}
    /\ UNCHANGED <<search_result, top_list, individual_result, final_result>>
    /\ UNCHANGED <<evars, dvars, avars>>

\* one pass of the loop of _execute: blastn is run for the next sequence of the
\* query file and its output is read; the first pass for a file starts from an
\* empty list, in a call of _blast_search_single that has no top_list yet
Execute ==
    /\ bpc \in {"str", "list", "file"}
    /\ bpc # "str" => Len(individual_result) < MaxContigSets
    /\ LET result == IF bpc = "list" THEN <<>> ELSE search_result
       IN  /\ Len(result) < MaxQueries
           /\ \E hits \in HitTables :
                 search_result' = Append(result,
                     ExecuteQuery(Len(individual_result) + 1, Len(result) + 1, hits))
    /\ top_list' = <<>>
    /\ bpc' = IF bpc = "str" THEN "str" ELSE "file"
    /\ UNCHANGED <<individual_result, final_result>>
    /\ UNCHANGED <<evars, dvars, avars>>

\* what the loop of _blast_search_single leaves in search_result:
\* _choose_highest_score sorts the frame it is given in place
\* (sort_values(by=["evalue"], inplace=True)); frames with no row are skipped
SortedInPlace(results) ==
    [k \in 1..Len(results) |->
        IF results[k].result = <<>> THEN results[k]
        ELSE [results[k] EXCEPT !.result = sort_values(@)]]

\* list(filter(filter_none, individual_result)): the entries other than None
filter_none(results) ==
    LET Some(r) == r # None
    IN  SelectSeq(results, Some)

\* blast_search with one path (blast_all): the rest of _blast_search_single
\* once _execute has returned
BlastSearchSingle ==
    /\ bpc = "str"
    /\ search_result' = SortedInPlace(search_result)
    /\ top_list' = TopList(search_result)
    /\ final_result' = blast_search_single(search_result)
    /\ bpc' = "returned_single"
    /\ UNCHANGED individual_result
    /\ UNCHANGED <<evars, dvars, avars>>

\* blast_search with a list (blast_individual): one step of the loop of
\* _blast_search_multi, the rest of a call of _blast_search_single once _execute
\* has returned (with no result for a file without sequences)
SearchNextFile ==
    /\ bpc \in {"list", "file"}
    /\ Len(individual_result) < MaxContigSets
    /\ LET results == IF bpc = "list" THEN <<>> ELSE search_result
       IN  /\ search_result' = SortedInPlace(results)
           /\ top_list' = TopList(results)
           /\ individual_result' = Append(individual_result, blast_search_single(results))
    /\ bpc' = "list"
    /\ UNCHANGED final_result
    /\ UNCHANGED <<evars, dvars, avars>>

\* the list is exhausted: the rest of _blast_search_multi, which rebinds
\* individual_result to the list without None
BlastSearchMulti ==
    /\ bpc = "list"
    /\ individual_result' = filter_none(individual_result)
    /\ final_result' = blast_search_multi(individual_result)
    /\ bpc' = "returned_multi"
    /\ UNCHANGED <<search_result, top_list>>
    /\ UNCHANGED <<evars, dvars, avars>>

BlastNext ==
    \/ BlastSearch
    \/ Execute
    \/ BlastSearchSingle
    \/ SearchNextFile
    \/ BlastSearchMulti

BlastSpec == BlastInit /\ [][BlastNext]_vars

(***************************************************************************)
(* assemble_all and Megahit.assemble (all_in_tools/assemble.py)            *)
(*                                                                         *)
(* A text file is the list of its lines; the empty string is <<>>. A file   *)
(* that may be missing is <<>> when missing and <<text>> when present.      *)
(***************************************************************************)
\* values of --engine; only "megahit" names a class that implements assemble
AssembleEngines == {"megahit", "skesa", "velvet"}

\* the dictionary of assemble_all
KnownAssemblers == {"megahit", "skesa", "spades"}

\* final.contigs.fa after the run: missing, without contigs, with a contig
ContigsFiles == { <<>>, << <<>> >>, << <<">k141_0", "ACGT">> >> }

\* what running megahit for one cell can do: Popen raises OSError and
\* return_code stays None, or the process ends with a return code;
\* final.contigs.fa is whatever the output directory holds afterwards
MegahitRuns ==
    [popen : {"OSError"}, return_code : {None}, contigs : ContigsFiles] \cup
    [popen : {"started"}, return_code : {0, 1}, contigs : ContigsFiles]

\* Megahit.assemble: res of the except, else and finally clauses
assemble(run) ==
    IF run.popen = "OSError" THEN <<>>
    ELSE IF run.contigs # <<>> THEN run.contigs[1]
    ELSE <<>>

\* the keys the settings dictionary may have
SettingsKeys == {{}, {"megahit"}, {"megahit", "skesa", "spades"}}

\* assemble_all is called once, on at most MaxWells cell directories
AssembleInit ==
    /\ EngineIdle
    /\ DemuxIdle
    /\ BlastIdle
    /\ apc = "select"
    /\ assemble_engine \in AssembleEngines
    /\ asm_settings \in SettingsKeys
    /\ cell_dirs \in UNION {[1..n -> BOOLEAN] : n \in 0..MaxWells}
    /\ runs = <<>>
    /\ all_contigs = <<>>

\* Select assembler: the dictionary lookup, KeyError is logged and raised
SelectAssembler ==
    /\ apc = "select"
    /\ apc' = IF assemble_engine \in KnownAssemblers THEN "cell" ELSE "raised"
    /\ UNCHANGED <<assemble_engine, asm_settings, cell_dirs, runs, all_contigs>>
    /\ UNCHANGED <<evars, dvars, bvars>>

\* one pass of the loop over the cell directories. Make temporary fastq: open of
\* a file named in R1_name or R2_name raises FileNotFoundError when the
\* directory lacks it. Construct assembler: settings[assemble_engine] raises
\* KeyError. Execute assembler and save what it returned to all_contigs.fasta:
\* Skesa and Spades inherit Assembler.assemble, which returns None, and
\* f_out.write(None) raises TypeError after the file was opened for writing
AssembleCell ==
    /\ apc = "cell"
    /\ Len(all_contigs) < Len(cell_dirs)
    /\ IF ~cell_dirs[Len(all_contigs) + 1] \/ assemble_engine \notin asm_settings
       THEN /\ apc' = "raised"
            /\ UNCHANGED <<runs, all_contigs>>
       ELSE IF assemble_engine = "megahit"
       THEN \E run \in MegahitRuns :
               /\ runs' = Append(runs, run)
               /\ all_contigs' = Append(all_contigs, assemble(run))
               /\ apc' = "cell"
       ELSE /\ all_contigs' = Append(all_contigs, <<>>)
            /\ apc' = "raised"
            /\ UNCHANGED runs
    /\ UNCHANGED <<assemble_engine, asm_settings, cell_dirs>>
    /\ UNCHANGED <<evars, dvars, bvars>>

\* the list of os.scandir is exhausted: assemble_all returns
AssembleReturn ==
    /\ apc = "cell"
    /\ Len(all_contigs) = Len(cell_dirs)
    /\ apc' = "returned"
    /\ UNCHANGED <<assemble_engine, asm_settings, cell_dirs, runs, all_contigs>>
    /\ UNCHANGED <<evars, dvars, bvars>>

AssembleNext ==
    \/ SelectAssembler
    \/ AssembleCell
    \/ AssembleReturn

AssembleSpec == AssembleInit /\ [][AssembleNext]_vars

(***************************************************************************)
(* Properties of the pipeline engine                                       *)
(***************************************************************************)
\* cursor the current process started from: 0 on a cold start, else the restored one
StartCursor == IF loaded = <<>> THEN 0 ELSE loaded[1].step_counter

LastWritten == written[Len(written)]

LastCalled == called[Len(called)]

\* C1: every stage function call of a run is preceded by the write of the
\* checkpoint "before_" + its stage name, and the state stored in that checkpoint
\* has step_counter equal to the stage's index.
C1_CheckpointBeforeStage ==
    /\ Len(written) >= Len(called)
    /\ \A k \in 1..Len(called) :
          /\ written[k].name = BeforeName(called[k])
          /\ written[k].state.step_counter = called[k]
    /\ pc = "call" =>
          /\ Len(written) = Len(called) + 1
          /\ LastWritten.name = BeforeName(cur)
          /\ disk[CheckpointPath(all_in[1], BeforeName(cur))].step_counter = cur

C1_Witness ==
    /\ pc = "call"
    /\ loaded # <<>>
    /\ cur = 5
    /\ Len(called) = 2

\* C2: a process resumed from a checkpoint taken at cursor N starts with cursor N
\* and calls exactly the stages N, N+1, ... in order; it calls no stage below N,
\* and resumed from after_all it calls none.
C2_ResumeFromCursor ==
    loaded # <<>> =>
        LET N == saved[margs.resume].step_counter
        IN  /\ N \in 0..NumSteps
            /\ (pc = "next" /\ cur = -1) => all_in[1].step_counter = N
            /\ \A k \in 1..Len(called) : called[k] = N + k - 1
            /\ pc = "done" => Len(called) = NumSteps - N

C2_Witness ==
    /\ pc = "done"
    /\ loaded # <<>>
    /\ saved[margs.resume].step_counter = 2
    /\ called = <<2, 3, 4, 5, 6>>

\* C3 (as claimed): a checkpoint written after stage i raised holds a cursor that
\* does not count stage i as done, i.e. a cursor of at most i.
C3_CursorNotAdvancedOnFailure ==
    (lastOutcome = "raise" /\ Len(written) > Len(called)) =>
        LastWritten.state.step_counter <= LastCalled

\* C4: a stage that raises an Exception does not end the run and is not called
\* again: the stages called by a process are StartCursor, StartCursor + 1, ... each
\* once, and a process that is not ended by SystemExit calls all of them up to the
\* last.
C4_EveryStageAttemptedOnce ==
    /\ \A k \in 1..Len(called) : called[k] = StartCursor + k - 1
    /\ lastOutcome = "raise" => pc # "exited"
    /\ (pc = "next" /\ lastOutcome = "raise" /\ LastCalled + 1 < NumSteps) => ENABLED GenNext
    /\ pc = "done" => Len(called) = NumSteps - StartCursor

C4_Witness ==
    /\ pc = "call"
    /\ lastOutcome = "raise"
    /\ called = <<0, 1, 2, 3, 4, 5>>
    /\ cur = 6

\* C5: a process whose stages return or raise Exceptions ends normally: it reaches
\* the end of run() with exit status 0, and the checkpoint it wrote last is
\* after_all. Only SystemExit (the read check, demultiplex's exits) ends it
\* otherwise.
C5_TerminatesWithAfterAll ==
    /\ [](pc = "exited" => (all_in = <<>> \/ lastOutcome = "exit"))
    /\ [](pc = "done" => (exitCode = 0 /\ written # <<>> /\ LastWritten.name = "after_all"))
    /\ \A c \in 1..MaxRuns :
          (pc = "cli" /\ clock = c) ~> (clock = c /\ pc \in {"done", "exited"})

C5_Witness ==
    /\ pc = "done"
    /\ lastOutcome = "raise"
    /\ exitCode = 0
    /\ LastWritten.name = "after_all"

\* C6: resuming restores the settings, dir_path, fastq_path, args and step_counter
\* the object had when the checkpoint was written; an override replaces the
\* settings alone, and the run never changes dir_path, fastq_path or args.
C6_ResumeRestoresState ==
    (loaded # <<>>) =>
        /\ all_in[1].dir_path = loaded[1].dir_path
        /\ all_in[1].fastq_path = loaded[1].fastq_path
        /\ all_in[1].args = loaded[1].args
        /\ (pc = "next" /\ cur = -1) =>
              LET was == saved[margs.resume]
              IN  /\ all_in[1].dir_path = was.dir_path
                  /\ all_in[1].fastq_path = was.fastq_path
                  /\ all_in[1].args = was.args
                  /\ all_in[1].step_counter = was.step_counter
                  /\ all_in[1].settings = IF margs.override_yaml = "None"
                                          THEN was.settings
                                          ELSE read_settings(margs.override_yaml)

C6_Witness ==
    /\ pc = "next"
    /\ cur = -1
    /\ loaded # <<>>
    /\ margs.override_yaml = "override.yaml"
    /\ all_in[1].settings # loaded[1].settings
    /\ all_in[1].step_counter = 3

\* C7 (as claimed): a process ended by a fatal error has called no stage function.
C7_FatalBeforeAnyStage ==
    (pc = "exited" /\ exitCode = 1) => called = <<>>

\* C8 (as claimed): a stage failure stops the run: after a stage has raised, the
\* engine neither writes the next stage's checkpoint nor calls the next stage.
\* The engine is configured by args and settings alone, the model runs it under
\* every value of both, and none of them selects this policy.
C8_HaltOnError ==
    lastOutcome = "raise" => pc \notin {"checkpoint", "call"}

\* C22: the stage boundary is a barrier. The work of a stage is in flight only
\* while its stage function is being called; a checkpoint is written, and the next
\* stage function is called, only when the work of every stage called before has
\* ended and that stage has returned or raised; checkpoints are written one at a
\* time, by run() alone.
C22_StageBoundaryIsBarrier ==
    /\ [](proc = "running" => pc = "running")
    /\ [][(written' # written /\ written' # <<>>) =>
             /\ pc \in {"checkpoint", "after_all"}
             /\ proc = "none" /\ proc' = "none"
             /\ lastOutcome # "pending"
             /\ Len(written') = Len(written) + 1]_vars
    /\ [][(called' # called /\ called' # <<>>) =>
             /\ proc = "none"
             /\ lastOutcome \in {"none", "ok", "raise"}
             /\ Len(written) = Len(called') ]_vars

C22_Witness ==
    /\ pc = "call"
    /\ proc = "none"
    /\ lastOutcome = "raise"
    /\ Len(called) = 2
    /\ Len(written) = 3

\* the stage cursor of the running process
Cursor == all_in[1].step_counter

\* C23: the cursor is 0 after a cold start, stays between 0 and the number of
\* stages, and never decreases within a process. run() leaves its loop exactly
\* when the cursor is the number of stages: it is that number whenever the loop
\* has been left, the after_all checkpoint stores it, no stage is checkpointed,
\* called or running at that value, and the generator entered at that value ends
\* the loop at once.
C23_CursorInvariant ==
    /\ [](all_in # <<>> =>
            /\ Cursor \in 0..NumSteps
            /\ (pc = "next" /\ cur = -1 /\ loaded = <<>>) => Cursor = 0
            /\ pc \in {"after_all", "done"} => Cursor = NumSteps
            /\ (pc = "done" /\ written # <<>>) =>
                   /\ LastWritten.name = "after_all"
                   /\ LastWritten.state.step_counter = NumSteps
            /\ Cursor = NumSteps => pc \in {"next", "after_all", "done"})
    /\ [][(all_in # <<>> /\ all_in' # <<>>) =>
             /\ all_in'[1].step_counter >= Cursor
             /\ (pc = "next" /\ Cursor = NumSteps) => pc' = "after_all"]_vars

C23_Witness ==
    /\ pc = "done"
    /\ loaded = <<>>
    /\ Len(called) = NumSteps
    /\ Cursor = NumSteps
    /\ LastWritten.state.step_counter = NumSteps

\* C26: a process exit raised inside a stage (sys.exit / exit in demultiplex) is
\* not handled by run(): the run stops at once, no later stage is called, no
\* after_all checkpoint is written, and the newest checkpoint of the run, which
\* is on disk, is before_demultiplex with the cursor at the index of demultiplex.
C26_ExitLeavesRun ==
    /\ [](lastOutcome = "exit" =>
            /\ pc = "exited"
            /\ exitCode = 1
            /\ called # <<>>
            /\ called[Len(called)] = DemultiplexStep
            /\ \A k \in 1..Len(called) : called[k] <= DemultiplexStep
            /\ \A k \in 1..Len(written) : written[k].name # "after_all"
            /\ written # <<>>
            /\ LastWritten.name = BeforeName(DemultiplexStep)
            /\ LastWritten.state.step_counter = DemultiplexStep
            /\ CheckpointPath(all_in[1], BeforeName(DemultiplexStep)) \in DOMAIN disk
            /\ disk[CheckpointPath(all_in[1], BeforeName(DemultiplexStep))] = LastWritten.state)
    /\ [][(lastOutcome = "exit" /\ pc = "exited") => pc' = "cli"]_vars
    /\ [][(lastOutcome # "exit" /\ lastOutcome' = "exit") =>
            /\ pc = "running"
            /\ cur = DemultiplexStep
            /\ called' = called
            /\ written' = written
            /\ disk' = disk]_vars

\* demultiplex exited in a cold run that had passed the three stages before it
C26_Witness ==
    /\ pc = "exited"
    /\ lastOutcome = "exit"
    /\ loaded = <<>>
    /\ called = <<0, 1, 2, DemultiplexStep>>
    /\ LastWritten.name = "before_demultiplex"
    /\ LastWritten.state.step_counter = DemultiplexStep

(***************************************************************************)
(* Properties of demultiplex                                               *)
(***************************************************************************)
Range(f) == {f[x] : x \in DOMAIN f}

\* the read pairs of the file pair read last, by position
ReadPairs == 1..Len(fastq[1])

\* read pair i of the file pair read last is among the rows grouped under cell c
InOutput(c, i) ==
    \E e \in Range(cell_dfs) :
        /\ e.cell = c
        /\ \E row \in Range(e.df) :
              /\ row.R1_sequence = fastq[1][i].sequence
              /\ row.R2_sequence = fastq[2][i].sequence

\* (suffix of the forward header, suffix of the reverse header) of read pair i,
\* the suffix being the field after the last space
Suffixes(i) ==
    <<fastq[1][i].fullname[Len(fastq[1][i].fullname)],
      fastq[2][i].fullname[Len(fastq[2][i].fullname)]>>

\* the cells of the table, in table order, whose accepted pairs hold read pair i
MatchingCells(i) == {j \in 1..Len(cells) : Suffixes(i) \in Range(cells[j].pairs)}

\* C9 (as claimed): once demultiplex has dealt with a file pair, read pair R is in
\* cell W's output collection if and only if (suffix of R's forward header, suffix
\* of R's reverse header) is one of W's accepted pairs, for every cell W of the table.
C9_OutputIffAccepted ==
    dpc \in {"pair", "done", "raised"} =>
        \A j \in 1..Len(cells) : \A i \in ReadPairs :
            InOutput(cells[j].cell, i) <=> (j \in MatchingCells(i))

\* C10 (as claimed): a read pair is in the output of at most one cell, and when
\* several cells accept it, in that of the first of them in table order only.
C10_AtMostOneWell ==
    dpc \in {"pair", "done"} =>
        \A i \in ReadPairs :
            LET holders == {j \in 1..Len(cells) : InOutput(cells[j].cell, i)}
            IN  /\ Cardinality(holders) <= 1
                /\ MatchingCells(i) # {} =>
                      holders = {CHOOSE j \in MatchingCells(i) :
                                    \A m \in MatchingCells(i) : j <= m}

RECURSIVE SumLen(_)
\* the per-cell counts of the report added up
SumLen(dfs) == IF dfs = <<>> THEN 0 ELSE Len(Head(dfs).df) + SumLen(Tail(dfs))

\* C11 (as claimed): every read pair of the file pair dealt with is in exactly one
\* cell's bucket or is counted as discarded, never both and never neither: the
\* per-cell counts and a discarded total of the pairs held by no cell add up to
\* the number of read pairs read.
C11_PartitionOrDrop ==
    (dpc \in {"pair", "done"} /\ pair_no > 1) =>
        LET discarded == Cardinality({i \in ReadPairs :
                             \A j \in 1..Len(cells) : ~InOutput(cells[j].cell, i)})
        IN  /\ \A i \in ReadPairs :
                  Cardinality({j \in 1..Len(cells) : InOutput(cells[j].cell, i)}) <= 1
            /\ SumLen(cell_dfs) + discarded = Cardinality(ReadPairs)

\* the rows grouped, and the records saved, that come from file pair n
RowsOfPair(n) ==
    {row \in UNION {Range(e.df) : e \in Range(cell_dfs)} : row.R1_sequence[2] = n}

SavedOfPair(n) ==
    {rec \in UNION {Range(out[c].R1) \cup Range(out[c].R2) : c \in DOMAIN out} : rec[2][2] = n}

\* C12: a file pair whose two files differ in line count ends the process with
\* exit status 1 before any of its reads is grouped: no row of it is in a bucket
\* or in an output file, the counts and the empty list are still those of the
\* file pair before it, and nothing runs afterwards (no retry).
C12_MismatchIsFatal ==
    Len(fastq[1]) # Len(fastq[2]) =>
        /\ dpc = "exited"
        /\ exitCode = 1
        /\ ~ENABLED DemuxNext
        /\ RowsOfPair(pair_no) = {}
        /\ SavedOfPair(pair_no) = {}
        /\ plate_at = PlateAssignments(cell_dfs)
        /\ empty_cells = EmptyCells(cell_dfs)

C12_Witness ==
    /\ dpc = "exited"
    /\ exitCode = 1
    /\ Len(fastq[2]) > Len(fastq[1])
    /\ pair_no = 2
    /\ SavedOfPair(1) # {}

\* C13: in the report of a file pair the grid entry at (plate, row, column) of a
\* cell of the table is the number of read pairs in that cell's bucket, every
\* other entry is 0, and the list of empty cells holds exactly the cells of the
\* table with no read pair, each once.
C13_ReportCountsBuckets ==
    (dpc \in {"pair", "done"} /\ pair_no > 1) =>
        LET Bucket(c) == {i \in ReadPairs : InOutput(c, i)}
            CellAt(plate_no, row, col) ==
                {j \in 1..Len(cells) :
                    <<int(cells[j].cell[1]) - 1, cells[j].cell[2], cells[j].cell[3]>>
                        = <<plate_no, row, col>>}
        IN  /\ \A plate_no \in 0..(NumPlates - 1) : \A row \in PlateRows : \A col \in PlateCols :
                  Plate(plate_at, plate_no, row, col) =
                      IF CellAt(plate_no, row, col) = {} THEN 0
                      ELSE Cardinality(Bucket(cells[CHOOSE j \in CellAt(plate_no, row, col) : TRUE].cell))
            /\ DOMAIN plate_at \subseteq (0..(NumPlates - 1)) \X PlateRows \X PlateCols
            /\ Range(empty_cells) = {cells[j].cell : j \in {m \in 1..Len(cells) :
                                                              Bucket(cells[m].cell) = {}}}
            /\ \A a, b \in 1..Len(empty_cells) : empty_cells[a] = empty_cells[b] => a = b

C13_Witness ==
    /\ dpc = "done"
    /\ Len(cells) = 2
    /\ Len(fastq[1]) = 2
    /\ Plate(plate_at, 1, "H", "12") = 2
    /\ empty_cells = << <<"1", "A", "01">> >>

\* the read pairs of the file pair read last that cell j of the table accepts
MatchingReads(j) == {i \in ReadPairs : j \in MatchingCells(i)}

\* C28: the file pairs are processed one after another and every cell's R1.fastq
\* and R2.fastq are written anew for each: after a file pair, and so after the
\* call, a cell's files hold exactly the matching read pairs of the file pair
\* processed last, and no read of an earlier file pair.
C28_LastFilePairOnly ==
    (dpc \in {"pair", "done"} /\ pair_no > 1) =>
        /\ DOMAIN out = {cells[j].cell : j \in 1..Len(cells)}
        /\ \A j \in 1..Len(cells) :
              LET files == out[cells[j].cell]
              IN  /\ {rec[2] : rec \in Range(files.R1)} =
                         {fastq[1][i].sequence : i \in MatchingReads(j)}
                  /\ {rec[2] : rec \in Range(files.R2)} =
                         {fastq[2][i].sequence : i \in MatchingReads(j)}
                  /\ Len(files.R1) = Cardinality(MatchingReads(j))
                  /\ Len(files.R2) = Cardinality(MatchingReads(j))
                  /\ \A rec \in Range(files.R1) \cup Range(files.R2) :
                         rec[2][2] = pair_no - 1

\* the second file pair was saved over a first one that had reads for a cell
C28_Witness ==
    /\ dpc = "done"
    /\ pair_no = 3
    /\ earlier
    /\ \E c \in DOMAIN out : Len(out[c].R1) = 1
    /\ \E c \in DOMAIN out : out[c].R1 = <<>>

\* C29: a cell's output keeps the read pairs paired and in order: R1.fastq and
\* R2.fastq have the same number of records, their k-th records come from the
\* same input read pair, the read pairs are in input order, and every record is
\* header, sequence, '+', quality of the input record.
C29_PairedAndOrdered ==
    (dpc \in {"pair", "done"} /\ pair_no > 1) =>
        \A c \in DOMAIN out :
            /\ Len(out[c].R1) = Len(out[c].R2)
            /\ \A k \in 1..Len(out[c].R1) :
                  \E i \in ReadPairs :
                      /\ out[c].R1[k] = <<fastq[1][i].fullname, fastq[1][i].sequence,
                                          "+", fastq[1][i].quality>>
                      /\ out[c].R2[k] = <<fastq[2][i].fullname, fastq[2][i].sequence,
                                          "+", fastq[2][i].quality>>
            /\ \A k, m \in 1..Len(out[c].R1) :
                  k < m => out[c].R1[k][2][3] < out[c].R1[m][2][3]

\* a cell received two read pairs whose forward and reverse headers differ
C29_Witness ==
    /\ dpc = "done"
    /\ \E c \in DOMAIN out :
          /\ Len(out[c].R1) = 2
          /\ out[c].R1[1][1] # out[c].R2[1][1]

\* C24 (as claimed): whenever a file pair with equal line counts has been read,
\* demultiplex has not raised, and every cell of the table that no read pair of
\* it matches, a cell with no accepted pair included, has count 0 in the grid and
\* is in the list of empty cells.
C24_EmptyWellReportedEmpty ==
    (dpc \in {"pair", "done", "raised"} /\ (pair_no > 1 \/ dpc = "raised")) =>
        /\ dpc # "raised"
        /\ \A j \in 1..Len(cells) :
              (\A i \in ReadPairs : j \notin MatchingCells(i)) =>
                  /\ cells[j].cell \in Range(empty_cells)
                  /\ Plate(plate_at, int(cells[j].cell[1]) - 1, cells[j].cell[2],
                           cells[j].cell[3]) = 0

(***************************************************************************)
(* Properties of Blastn                                                    *)
(***************************************************************************)
\* the positions of the rows of frame df that have both the smallest e-value and
\* the largest bit-score of df
WinnerRows(df) ==
    {k \in 1..Len(df) : \A m \in 1..Len(df) :
        df[k].evalue <= df[m].evalue /\ df[k].bitscore >= df[m].bitscore}

\* the queries of the file searched last that have at least one hit, by position
WithHits == {i \in 1..Len(search_result) : search_result[i].result # <<>>}

\* the n-th of them in file order
NthWithHits(n) == CHOOSE i \in WithHits : Cardinality({m \in WithHits : m < i}) = n - 1

\* C14: for every query with hits, _choose_highest_score returns exactly the hits
\* of that query whose e-value is the query's smallest and whose bit-score is its
\* largest, every tied hit kept and nothing else, under the query's provenance.
C14_WinnersAreMinEvalueMaxBitscore ==
    bpc \notin {"str", "file"} =>
    /\ Len(top_list) = Cardinality(WithHits)
    /\ \A n \in 1..Len(top_list) :
          LET q == search_result[NthWithHits(n)]
              w == top_list[n]
          IN  /\ Range(w.result) = {q.result[k] : k \in WinnerRows(q.result)}
              /\ Len(w.result) = Cardinality(WinnerRows(q.result))
              /\ w.query_file = q.query_file
              /\ w.query_name = q.query_name
              /\ w.query_seq = q.query_seq

C14_Witness ==
    /\ Len(top_list) = 2
    /\ Len(top_list[1].result) = 2
    /\ top_list[1].result[1].saccver # top_list[1].result[2].saccver
    /\ Len(search_result[2].result) = 2
    /\ search_result[2].result[1].evalue = search_result[2].result[2].evalue
    /\ Len(top_list[2].result) = 1

\* C15 (as claimed): _choose_highest_score applied to a winner set it returned
\* returns that winner set again.
C15_ChooseIsIdempotent ==
    \A n \in 1..Len(top_list) :
        /\ ~ChooseRaises(top_list[n])
        /\ Range(choose_highest_score(top_list[n]).result) = Range(top_list[n].result)

\* what the newest call of _blast_search_single returned
SingleResult ==
    IF bpc = "returned_single" THEN final_result
    ELSE individual_result[Len(individual_result)]

\* C16 (as claimed): _blast_search_single returns None when no query of the file
\* has a hit; otherwise it returns the winner set of the query whose smallest
\* e-value is the smallest of all queries with hits, the first such query in file
\* order when several tie.
C16_SingleReturnsGlobalBest ==
    (bpc = "returned_single" \/ (bpc = "list" /\ individual_result # <<>>)) =>
        IF WithHits = {} THEN SingleResult = None
        ELSE LET QMin(i) == CHOOSE e \in {search_result[i].result[k].evalue :
                                            k \in 1..Len(search_result[i].result)} :
                                \A k \in 1..Len(search_result[i].result) :
                                    e <= search_result[i].result[k].evalue
                 best == CHOOSE i \in WithHits :
                            /\ \A j \in WithHits : QMin(i) <= QMin(j)
                            /\ \A j \in WithHits : QMin(j) = QMin(i) => i <= j
                 q == search_result[best]
             IN  /\ SingleResult # None
                 /\ SingleResult[1].query_name = q.query_name
                 /\ Range(SingleResult[1].result) = {q.result[k] : k \in WinnerRows(q.result)}

\* the per-file results that are not None, in query_list order
Remaining == {k \in 1..Len(individual_result) : individual_result[k] # None}

\* C17: _blast_search_multi returns None when no file has a result, the one
\* result unchanged (not marked as an intersection) when exactly one file has
\* one, and the outcome of _get_result_intersection over the results that are
\* not None, in list order, when two or more files have one.
C17_MultiByNumberOfResults ==
    [][(bpc = "list" /\ bpc' = "returned_multi") =>
          /\ Cardinality(Remaining) = 0 => final_result' = None
          /\ Cardinality(Remaining) = 1 =>
                /\ final_result' = individual_result[CHOOSE k \in Remaining : TRUE]
                /\ final_result'[1].intersection = FALSE
          /\ Cardinality(Remaining) >= 2 =>
                final_result' = get_result_intersection(NotNone(individual_result))]_vars

\* the first of two files had no result and the second file's result, two tied
\* hits, was returned as it was
C17_Witness ==
    /\ bpc = "returned_multi"
    /\ Len(individual_result) = 1
    /\ individual_result[1][1].query_file = QueryFile(2)
    /\ final_result = individual_result[1]
    /\ final_result[1].intersection = FALSE
    /\ Len(final_result[1].result) = 2

\* the accessions found in the best-hit table of every file that has a result
InEveryTable ==
    {a \in UNION {Names(individual_result[k][1].result) : k \in Remaining} :
        \A k \in Remaining : a \in Names(individual_result[k][1].result)}

\* C18: with two or more per-file results, the accessions of the consensus are
\* exactly those present in every per-file best-hit table, and the call returns
\* None when there is none.
C18_IntersectionOfAllTables ==
    (bpc = "returned_multi" /\ Cardinality(Remaining) >= 2) =>
        /\ InEveryTable = {} <=> final_result = None
        /\ final_result # None => Names(final_result[1].result) = InEveryTable

C18_Witness ==
    /\ bpc = "returned_multi"
    /\ Cardinality(Remaining) = 2
    /\ Names(individual_result[1][1].result) = {"X"}
    /\ Names(individual_result[2][1].result) = {"X", "Y"}
    /\ Names(final_result[1].result) = {"X"}

\* C19: the consensus table has one row for each accession of the intersection
\* and no other row; the row of an accession has the smallest e-value that
\* accession has in any per-file table and is a row of one of them; the rows are
\* in ascending order of e-value; the result is marked as an intersection.
C19_ConsensusTable ==
    (bpc = "returned_multi" /\ Cardinality(Remaining) >= 2 /\ final_result # None) =>
        LET df == final_result[1].result
            AllRows == UNION {Range(individual_result[k][1].result) : k \in Remaining}
        IN  /\ \A a \in InEveryTable : Cardinality({k \in 1..Len(df) : df[k].saccver = a}) = 1
            /\ \A k \in 1..Len(df) :
                  /\ df[k].saccver \in InEveryTable
                  /\ df[k] \in AllRows
                  /\ \A row \in AllRows :
                        row.saccver = df[k].saccver => df[k].evalue <= row.evalue
            /\ \A k \in 1..(Len(df) - 1) : df[k].evalue <= df[k + 1].evalue
            /\ final_result[1].intersection = TRUE

C19_Witness ==
    /\ bpc = "returned_multi"
    /\ Cardinality(Remaining) = 2
    /\ final_result # None
    /\ Len(final_result[1].result) = 1
    /\ final_result[1].result[1].evalue = 1
    /\ individual_result[1][1].result[1].evalue = 2
    /\ final_result[1].intersection = TRUE

\* the orders a list of n files can be given in
FileOrders(n) == {p \in [1..n -> 1..n] : \A a, b \in 1..n : p[a] = p[b] => a = b}

\* C20 (as claimed): the consensus does not depend on the order of the files:
\* for the same per-file results in any other order _blast_search_multi returns
\* None in the same cases, the same first-row accession and the same rows.
C20_OrderIndependent ==
    bpc = "returned_multi" =>
        \A p \in FileOrders(Len(individual_result)) :
            LET other == blast_search_multi(
                             [k \in 1..Len(individual_result) |-> individual_result[p[k]]])
            IN  /\ other = None <=> final_result = None
                /\ (other # None /\ other[1].result # <<>>) =>
                      /\ other[1].result[1].saccver = final_result[1].result[1].saccver
                      /\ Range(other[1].result) = Range(final_result[1].result)

\* C21 (as claimed): the first file reports accession X at e-value rank 2; the
\* second file reports X at rank 3 and Y at rank 1 (1e-10, 1e-8 and 1e-12 of the
\* example). The search over the two files returns a call whose row is X with
\* the e-value of rank 2, marked as an intersection.
C21_ExampleReturnsX ==
    ( /\ bpc = "returned_multi"
      /\ Len(individual_result) = 2
      /\ individual_result[1] # None
      /\ {<<row.saccver, row.evalue>> : row \in Range(individual_result[1][1].result)}
             = {<<"X", 2>>}
      /\ Len(search_result) = 1
      /\ {<<row.saccver, row.evalue>> : row \in Range(search_result[1].result)}
             = {<<"X", 3>>, <<"Y", 1>>} ) =>
        /\ final_result # None
        /\ {<<row.saccver, row.evalue>> : row \in Range(final_result[1].result)} = {<<"X", 2>>}
        /\ final_result[1].intersection = TRUE

\* C27 (as claimed): for every query with at least one hit
\* _choose_highest_score returns a winner set that is not empty, and so
\* _blast_search_single never returns a hit table without rows.
C27_WinnerSetNotEmpty ==
    /\ \A n \in 1..Len(top_list) : top_list[n].result # <<>>
    /\ (bpc = "returned_single" \/ (bpc = "list" /\ individual_result # <<>>)) =>
          (SingleResult # None => SingleResult[1].result # <<>>)

\* every hit of every query of the file searched last
AllHits == UNION {Range(search_result[i].result) : i \in 1..Len(search_result)}

\* C30 (as claimed): a result of _blast_search_single other than None holds hits
\* of exactly one query, all with the same e-value and the same bit-score; so the
\* table a ContigSet brings to the intersection has a single e-value, and no hit
\* in it has a worse e-value than the best hit of the ContigSet.
C30_SingleTableHasOneEvalue ==
    ((bpc = "returned_single" \/ (bpc = "list" /\ individual_result # <<>>))
        /\ SingleResult # None) =>
        LET rows == Range(SingleResult[1].result)
        IN  /\ Cardinality({row.query_name : row \in rows}) = 1
            /\ Cardinality({row.evalue : row \in rows}) = 1
            /\ Cardinality({row.bitscore : row \in rows}) = 1
            /\ \A row \in rows : \A hit \in AllHits : row.evalue <= hit.evalue

(***************************************************************************)
(* Properties of the assembly adapter (AssembleSpec)                       *)
(***************************************************************************)
\* the megahit run failed: it could not be started or ended with a non-zero
\* return code
RunFailed(run) == run.popen = "OSError" \/ run.return_code # 0

\* C25 (as claimed): a megahit run without contigs gives an empty contig set,
\* saved for its cell, and no error,
\* and a megahit run that ended with a non-zero return code makes assemble_all
\* raise, so that no contig set is saved for it as the result of a successful
\* run and the stage is recorded as failed.
C25_NonZeroExitIsSurfaced ==
    \A k \in 1..Len(runs) :
        /\ (~RunFailed(runs[k]) /\ runs[k].contigs \in {<<>>, << <<>> >>})
               => Len(all_contigs) >= k /\ all_contigs[k] = <<>>
        /\ (runs[k].popen = "started" /\ runs[k].return_code # 0)
               => apc = "raised" /\ Len(all_contigs) < k

====
